---- MODULE Spec2Model ----
(***************************************************************************)
(* A model of image-ffi: a host (image_processor) that loads a filter      *)
(* module at run time and calls its C entry point `process_image` on a raw *)
(* RGBA8 buffer, and the two filter modules (blur_plugin, mirror_plugin).  *)
(*                                                                         *)
(* Text is a sequence of one-character strings.  A pixel buffer is a       *)
(* sequence of bytes; the code's index i is the model's index i + 1.       *)
(* A u32 is a record [hi, lo] of two 16-bit halves, an i32 is an integer   *)
(* in I32Min..I32Max: TLC's integers are 32-bit signed, and the            *)
(* code's arithmetic is modelled without ever leaving that range.          *)
(***************************************************************************)
EXTENDS Integers, Sequences, FiniteSets, TLC

VARIABLES
    mode,        \* which program runs: "host", "filter" (a direct call of a module), "parse"
    build,       \* "debug" (overflow checks on) or "release" (wrapping arithmetic)
    filter,      \* the module called: "blur" or "mirror"
    arg_width,   \* the width handed to process_image
    arg_height,  \* the height handed to process_image
    rgba_null,   \* TRUE iff the rgba_data pointer is null
    hist,        \* the caller's buffer: before the first call, then after each call
    params,      \* the params pointer: [null, bytes]
    status,      \* what the last call of process_image returned ("none": nothing yet, "unit": no value)
    crashed,     \* the process died inside process_image (panic across the C boundary, or a fault)
    parsed,      \* the (radius, iterations) Blur's process_image last extracted
    pc,          \* host: the place main() has reached
    result,      \* host: main()'s result, "running" until it returns
    world,       \* host: the files main() finds: [input, paramsFile, plugin]
    data,        \* host: the Vec<u8> `data`
    handle,      \* host: "none", "lib" (library open) or "plugin" (symbol resolved)
    loads,       \* host: how many times Plugin::load was attempted
    invocations  \* host: how many times the resolved entry point was called

vars == <<mode, build, filter, arg_width, arg_height, rgba_null, hist, params, status,
          crashed, parsed, pc, result, world, data, handle, loads, invocations>>

----------------------------------------------------------------------------
(* Bounds of the model *)

\* direct calls made on one buffer
MaxCalls == 2
\* pixels (width * height) of a generated image
MaxPixels == 4
\* pieces a generated configuration text is made of
MaxPieces == 3
\* pixels of an image the host decodes
HostMaxPixels == 2

----------------------------------------------------------------------------
(* Integers of the code *)

I32Max == 2147483647
I32Min == (-I32Max) - 1
\* 2^16: a u32 is hi * Half + lo
Half == 256 * 256

Max(a, b) == IF a >= b THEN a ELSE b
Min(a, b) == IF a <= b THEN a ELSE b

\* a u32 from a small natural number
U32Of(n) == [hi |-> 0, lo |-> n]
\* u32::MAX
U32MaxVal == [hi |-> Half - 1, lo |-> Half - 1]
U32IsZero(u) == u.hi = 0 /\ u.lo = 0
\* u >= n for a natural n < 2^16
U32AtLeast(u, n) == u.hi > 0 \/ u.lo >= n
\* the value of a u32 below 2^31
U32ToNat(u) == u.hi * Half + u.lo

\* `radius as i32`: the same 32 bits read as two's complement
AsI32(u) ==
    IF u.hi < Half \div 2 THEN u.hi * Half + u.lo
    ELSE (u.hi - Half) * Half + u.lo

\* a + b on i32: [ovf |-> the exact sum is out of range, val |-> the wrapped sum]
AddI32(a, b) ==
    IF b >= 0 /\ a > I32Max - b
      THEN [ovf |-> TRUE, val |-> ((a - I32Max) - 1) + ((b - I32Max) - 1)]
    ELSE IF b < 0 /\ a < I32Min - b
      THEN [ovf |-> TRUE, val |-> ((a + I32Max) + 1) + ((b + I32Max) + 1)]
    ELSE [ovf |-> FALSE, val |-> a + b]

\* a - b on i32
SubI32(a, b) ==
    IF b < 0 /\ a > I32Max + b
      THEN [ovf |-> TRUE, val |-> ((a - I32Max) - 1) - ((b + I32Max) + 1)]
    ELSE IF b > 0 /\ a < I32Min + b
      THEN [ovf |-> TRUE, val |-> ((a + I32Max) + 1) - ((b - I32Max) - 1)]
    ELSE [ovf |-> FALSE, val |-> a - b]

----------------------------------------------------------------------------
(* Text *)

UpperChars == <<"A","B","C","D","E","F","G","H","I","J","K","L","M",
                "N","O","P","Q","R","S","T","U","V","W","X","Y","Z">>
LowerChars == <<"a","b","c","d","e","f","g","h","i","j","k","l","m",
                "n","o","p","q","r","s","t","u","v","w","x","y","z">>
DigitChars == <<"0","1","2","3","4","5","6","7","8","9">>

\* a byte that is not valid UTF-8, and the NUL byte
BadByte == "<ff>"
NulByte == "<00>"

IndexIn(seq, c) == CHOOSE i \in 1..Len(seq) : seq[i] = c
IsIn(seq, c) == \E i \in 1..Len(seq) : seq[i] = c

\* char::is_ascii_digit
is_ascii_digit(c) == IsIn(DigitChars, c)
DigitValue(c) == IndexIn(DigitChars, c) - 1

\* str::to_lowercase on the characters of the model
to_lowercase(s) ==
    [i \in 1..Len(s) |-> IF IsIn(UpperChars, s[i])
                           THEN LowerChars[IndexIn(UpperChars, s[i])]
                           ELSE s[i]]

\* s[from..] with the code's 0-based start
Tail0(s, from) == SubSeq(s, from + 1, Len(s))

\* key occurs in s at the 0-based position pos
MatchesAt(s, key, pos) ==
    /\ pos + Len(key) <= Len(s)
    /\ \A j \in 1..Len(key) : s[pos + j] = key[j]

RECURSIVE FindFrom(_, _, _)
FindFrom(s, key, pos) ==
    IF pos + Len(key) > Len(s) THEN -1
    ELSE IF MatchesAt(s, key, pos) THEN pos
    ELSE FindFrom(s, key, pos + 1)

\* str::find: the 0-based position of the first occurrence, or -1 (None)
find(s, key) == FindFrom(s, key, 0)

RECURSIVE skip_while_not_digit(_)
skip_while_not_digit(s) ==
    IF s = <<>> THEN <<>>
    ELSE IF is_ascii_digit(Head(s)) THEN s
    ELSE skip_while_not_digit(Tail(s))

RECURSIVE take_while_digit(_)
take_while_digit(s) ==
    IF s = <<>> THEN <<>>
    ELSE IF is_ascii_digit(Head(s)) THEN <<Head(s)>> \o take_while_digit(Tail(s))
    ELSE <<>>

NoneU32 == [some |-> FALSE, val |-> U32Of(0)]
SomeU32(u) == [some |-> TRUE, val |-> u]

\* hi * 2^16 + lo brought back to two halves, None when it does not fit 32 bits
U32Norm(hi, lo) ==
    IF hi + lo \div Half >= Half THEN NoneU32
    ELSE SomeU32([hi |-> hi + lo \div Half, lo |-> lo % Half])

\* acc * 10 + d checked on u32
U32Push(acc, d) == U32Norm(acc.hi * 10, acc.lo * 10 + d)

RECURSIVE ParseFrom(_, _)
RECURSIVE ParseNext(_, _)
\* the digits left to read, after acc
ParseFrom(digits, acc) ==
    IF digits = <<>> THEN SomeU32(acc)
    ELSE ParseNext(Tail(digits), U32Push(acc, DigitValue(Head(digits))))
ParseNext(rest, nxt) == IF nxt.some THEN ParseFrom(rest, nxt.val) ELSE nxt

\* if digits.is_empty() { None } else { digits.parse().ok() }
parse_u32(digits) == IF digits = <<>> THEN NoneU32 ELSE ParseFrom(digits, U32Of(0))

\* tail.chars().skip_while(not digit).take_while(digit), tail = lower[pos + n..];
\* no digits when find returned None
DigitsAt(lower, pos, n) ==
    IF pos < 0 THEN <<>>
    ELSE take_while_digit(skip_while_not_digit(Tail0(lower, pos + n)))

DigitsAfter(lower, key) == DigitsAt(lower, find(lower, key), Len(key))

\* a get_u32 that looks for the key as it is written
get_u32_case_sensitive(s, key) == parse_u32(DigitsAfter(s, key))

\* blur_plugin: get_u32(s, key) -> Option<u32>
get_u32(s, key) == parse_u32(DigitsAfter(to_lowercase(s), to_lowercase(key)))

unwrap_or(opt, default) == IF opt.some THEN opt.val ELSE default

\* CStr::from_ptr(params).to_str().unwrap_or(""), "" for a null pointer
ParamsStr(p) ==
    IF p.null THEN <<>>
    ELSE IF IsIn(p.bytes, BadByte) THEN <<>>
    ELSE p.bytes

KeyRadius == <<"r","a","d","i","u","s">>
KeyIterations == <<"i","t","e","r","a","t","i","o","n","s">>
DefaultRadius == 3
DefaultIterations == 1

\* blur_plugin process_image: the two parameters it extracts
BlurParamsOf(s) ==
    [radius |-> unwrap_or(get_u32(s, KeyRadius), U32Of(DefaultRadius)),
     iterations |-> unwrap_or(get_u32(s, KeyIterations), U32Of(DefaultIterations))]

BlurParams(p) == BlurParamsOf(ParamsStr(p))

----------------------------------------------------------------------------
(* blur_plugin: the weighted blur *)

\* The f32 weights are held in fixed point: Weight(d2) is 1 / (1 + sqrt(d2))
\* in units of 1 / Scale, rounded down.  f32 rounding error is not modelled:
\* a channel is the weighted mean in this arithmetic, rounded half away
\* from zero as f32::round does.
Scale == 10000

\* the largest squared distance between two pixels of an image of the model
MaxD2 == 2 * (MaxPixels + 1) * (MaxPixels + 1)

\* w = 1.0 / (1.0 + (dx * dx + dy * dy).sqrt()): the largest w with
\* w * (1 + sqrt(d2)) <= Scale, that is w * w * d2 <= (Scale - w)^2
WeightTable ==
    [d2 \in 0..MaxD2 |->
        CHOOSE w \in 0..Scale :
            /\ w * w * d2 <= (Scale - w) * (Scale - w)
            /\ \/ w = Scale
               \/ (w + 1) * (w + 1) * d2 > (Scale - w - 1) * (Scale - w - 1)]

Weight(dx, dy) == WeightTable[dx * dx + dy * dy]

\* the window from the four sums
WindowOf(width, height, ym, yp, xm, xp) ==
    [ovf |-> ym.ovf \/ yp.ovf \/ xm.ovf \/ xp.ovf,
     y0 |-> Max(ym.val, 0),
     y1 |-> Min(yp.val, height - 1),
     x0 |-> Max(xm.val, 0),
     x1 |-> Min(xp.val, width - 1)]

\* The clipped window of destination pixel (x, y), as the code computes it in i32:
\* ovf is TRUE when one of the four sums leaves the i32 range (a panic with
\* overflow checks, a wrapped value without).
Window(width, height, x, y, r) ==
    WindowOf(width, height, SubI32(y, r), AddI32(y, r), SubI32(x, r), AddI32(x, r))

\* the neighbours (nx, ny) the two inner loops visit
Neighbours(win) == (win.x0 .. win.x1) \X (win.y0 .. win.y1)

RECURSIVE SumOver(_, _)
\* the sum of the sequence of numbers q
SumOver(q, i) == IF i > Len(q) THEN 0 ELSE q[i] + SumOver(q, i + 1)

\* nw * nh neighbours from (x0, y0), in the order of the loops: ny outer, nx inner
NeighbourGrid(x0, y0, nw, nh) ==
    [k \in 1..(nw * nh) |-> <<x0 + ((k - 1) % nw), y0 + ((k - 1) \div nw)>>]

NeighbourSeq(win) ==
    NeighbourGrid(win.x0, win.y0, Max(win.x1 - win.x0 + 1, 0), Max(win.y1 - win.y0 + 1, 0))

\* the weights of the neighbours in order
WeightsOf(order, x, y) ==
    [k \in 1..Len(order) |-> Weight(order[k][1] - x, order[k][2] - y)]

\* src[idx + c] as f32 * w of the neighbours in order
TermsOf(order, width, src, x, y, c) ==
    [k \in 1..Len(order) |->
        src[(order[k][2] * width + order[k][1]) * 4 + c + 1]
            * Weight(order[k][1] - x, order[k][2] - y)]

\* wsum of pixel (x, y)
WSum(win, x, y) == SumOver(WeightsOf(NeighbourSeq(win), x, y), 1)

\* acc[c] of pixel (x, y)
Acc(width, src, win, x, y, c) == SumOver(TermsOf(NeighbourSeq(win), width, src, x, y, c), 1)

\* (acc[c] * inv).round().clamp(0.0, 255.0) as u8, inv = 0 when wsum = 0
Channel(acc, wsum) ==
    IF wsum > 0 THEN Min(255, Max(0, (2 * acc + wsum) \div (2 * wsum))) ELSE 0

\* dst[out_idx + c] of pixel (x, y) with window win
ChannelAt(width, src, win, x, y, c) ==
    Channel(Acc(width, src, win, x, y, c), WSum(win, x, y))

\* one pass: the scratch buffer tmp computed from src
BlurPass(width, height, src, r) ==
    [i \in 1..(width * 4 * height) |->
        ChannelAt(width, src,
                  Window(width, height, ((i - 1) \div 4) % width, ((i - 1) \div 4) \div width, r),
                  ((i - 1) \div 4) % width, ((i - 1) \div 4) \div width, (i - 1) % 4)]

\* buf[..expected_len].copy_from_slice(&tmp)
CopyFromSlice(buf, tmp) ==
    [i \in 1..Len(buf) |-> IF i <= Len(tmp) THEN tmp[i] ELSE buf[i]]

\* a loop that reads the buffer it was given in every iteration
BlurLoopStale(width, height, buf, r, n) ==
    IF n = 0 THEN buf
    ELSE CopyFromSlice(buf, BlurPass(width, height, buf, r))

RECURSIVE BlurLoop(_, _, _, _, _)
\* for _ in 0..iterations { pass; copy back }
BlurLoop(width, height, buf, r, n) ==
    IF n = 0 THEN buf
    ELSE BlurLoop(width, height,
                  CopyFromSlice(buf, BlurPass(width, height, SubSeq(buf, 1, width * 4 * height), r)),
                  r, n - 1)

\* some window of the image overflows i32
WindowOverflows(width, height, r) ==
    \E x \in 0..(width - 1), y \in 0..(height - 1) :
        Window(width, height, x, y, r).ovf

\* a blur that takes a radius or an iteration count of 0 for 1
blur_in_place_at_least_one(width, height, buf, radius, iterations) ==
    IF width = 0 \/ height = 0 THEN [buf |-> buf, panicked |-> FALSE]
    ELSE IF Len(buf) < width * 4 * height THEN [buf |-> buf, panicked |-> FALSE]
    ELSE IF build = "debug" /\ ~U32IsZero(radius)
            /\ WindowOverflows(width, height, AsI32(radius))
      THEN [buf |-> buf, panicked |-> TRUE]
    ELSE [buf |-> BlurLoop(width, height, buf,
                           IF U32IsZero(radius) THEN 1 ELSE AsI32(radius),
                           IF U32IsZero(iterations) THEN 1 ELSE U32ToNat(iterations)),
          panicked |-> FALSE]

\* blur_plugin: blur_in_place; [buf, panicked]
blur_in_place(width, height, buf, radius, iterations) ==
    IF width = 0 \/ height = 0 \/ U32IsZero(radius) \/ U32IsZero(iterations)
      THEN [buf |-> buf, panicked |-> FALSE]
    ELSE IF Len(buf) < width * 4 * height
      THEN [buf |-> buf, panicked |-> FALSE]
    ELSE IF build = "debug" /\ WindowOverflows(width, height, AsI32(radius))
      THEN [buf |-> buf, panicked |-> TRUE]
    ELSE [buf |-> BlurLoop(width, height, buf, AsI32(radius), U32ToNat(iterations)),
          panicked |-> FALSE]

----------------------------------------------------------------------------
(* mirror_plugin: the configuration *)

\* toml::from_str::<Params> on the part of TOML the texts of this model use:
\* lines `key = value` with a bare key and a boolean or decimal integer value,
\* blank lines and comment lines; anything else is a syntax error.

RECURSIVE SplitLines(_, _)
\* the lines of s; cur is the line being read
SplitLines(s, cur) ==
    IF s = <<>> THEN <<cur>>
    ELSE IF Head(s) = "\n" THEN <<cur>> \o SplitLines(Tail(s), <<>>)
    ELSE SplitLines(Tail(s), Append(cur, Head(s)))

IsSpace(c) == c = " " \/ c = "\t"

RECURSIVE TrimLeft(_)
TrimLeft(s) ==
    IF s # <<>> /\ IsSpace(Head(s)) THEN TrimLeft(Tail(s)) ELSE s

RECURSIVE TrimRight(_)
TrimRight(s) ==
    IF s # <<>> /\ IsSpace(s[Len(s)]) THEN TrimRight(SubSeq(s, 1, Len(s) - 1)) ELSE s

Trim(s) == TrimRight(TrimLeft(s))

IsBareKeyChar(c) ==
    IsIn(LowerChars, c) \/ IsIn(UpperChars, c) \/ is_ascii_digit(c) \/ c = "_" \/ c = "-"

RECURSIVE BareKeyLen(_)
\* the length of the longest prefix of s made of bare-key characters
BareKeyLen(s) ==
    IF s # <<>> /\ IsBareKeyChar(Head(s)) THEN 1 + BareKeyLen(Tail(s)) ELSE 0

\* a TOML value: "bool" with its value, "int", or "error"
TomlValue(v) ==
    IF v = <<"t","r","u","e">> THEN [kind |-> "bool", b |-> TRUE]
    ELSE IF v = <<"f","a","l","s","e">> THEN [kind |-> "bool", b |-> FALSE]
    ELSE IF /\ v # <<>>
            /\ \A i \in 1..Len(v) : is_ascii_digit(v[i])
            /\ (Len(v) = 1 \/ v[1] # "0")
      THEN [kind |-> "int", b |-> FALSE]
    ELSE [kind |-> "error", b |-> FALSE]

BlankLine == [kind |-> "blank", key |-> <<>>, val |-> [kind |-> "error", b |-> FALSE]]
BadLine == [kind |-> "error", key |-> <<>>, val |-> [kind |-> "error", b |-> FALSE]]

TomlEntry(key, val) ==
    IF val.kind = "error" THEN BadLine ELSE [kind |-> "kv", key |-> key, val |-> val]

\* what follows the key: `=` and a value
TomlAfterKey(key, rest) ==
    IF rest = <<>> THEN BadLine
    ELSE IF rest[1] # "=" THEN BadLine
    ELSE TomlEntry(key, TomlValue(Trim(Tail(rest))))

\* a line t that starts with a key of n characters
TomlKeyVal(t, n) ==
    IF n = 0 THEN BadLine
    ELSE TomlAfterKey(SubSeq(t, 1, n), TrimLeft(SubSeq(t, n + 1, Len(t))))

TomlTrimmed(t) ==
    IF t = <<>> THEN BlankLine
    ELSE IF t[1] = "#" THEN BlankLine
    ELSE TomlKeyVal(t, BareKeyLen(t))

\* one line: "blank", "kv" (key, val) or "error"
TomlLine(line) == TomlTrimmed(Trim(line))

TomlLines(lines) == [i \in 1..Len(lines) |-> TomlLine(lines[i])]

IsKv(l) == l.kind = "kv"

\* a key given twice fails
TomlOfEntries(kv) ==
    IF \E i, j \in 1..Len(kv) : i # j /\ kv[i].key = kv[j].key
      THEN [ok |-> FALSE, entries |-> <<>>]
    ELSE [ok |-> TRUE, entries |-> kv]

\* a syntax error fails
TomlOfLines(pl) ==
    IF \E i \in 1..Len(pl) : pl[i].kind = "error"
      THEN [ok |-> FALSE, entries |-> <<>>]
    ELSE TomlOfEntries(SelectSeq(pl, IsKv))

\* the document as a table: [ok, entries]
TomlTable(s) == TomlOfLines(TomlLines(SplitLines(s, <<>>)))

KeyHorizontal == <<"h","o","r","i","z","o","n","t","a","l">>
KeyVertical == <<"v","e","r","t","i","c","a","l">>

\* a field of type bool: present with a boolean value, or the parse fails
BoolField(entries, key) ==
    IF \E i \in 1..Len(entries) : entries[i].key = key /\ entries[i].val.kind = "bool"
      THEN [ok |-> TRUE,
            b |-> entries[CHOOSE i \in 1..Len(entries) : entries[i].key = key].val.b]
    ELSE [ok |-> FALSE, b |-> FALSE]

\* a Params that takes false for a field it cannot read
ParamsOfFieldsLenient(ok, hz, vt) ==
    [ok |-> TRUE, horizontal |-> hz.ok /\ hz.b, vertical |-> vt.ok /\ vt.b]

\* struct Params { horizontal: bool, vertical: bool }: both fields are required
ParamsOfFields(ok, hz, vt) ==
    IF ok /\ hz.ok /\ vt.ok
      THEN [ok |-> TRUE, horizontal |-> hz.b, vertical |-> vt.b]
    ELSE [ok |-> FALSE, horizontal |-> FALSE, vertical |-> FALSE]

ParamsOfTable(t) ==
    ParamsOfFields(t.ok, BoolField(t.entries, KeyHorizontal), BoolField(t.entries, KeyVertical))

\* mirror_plugin: toml::from_str(&params_str) as Params {horizontal, vertical}
ParamsFromToml(s) == ParamsOfTable(TomlTable(s))

----------------------------------------------------------------------------
(* mirror_plugin: the flips *)

\* buf.swap(i, j), 0-based
Swap(buf, i, j) == [buf EXCEPT ![i + 1] = buf[j + 1], ![j + 1] = buf[i + 1]]

RECURSIVE SwapRun(_, _, _, _)
\* swap the n bytes at a.. with the n bytes at b..
SwapRun(buf, a, b, n) ==
    IF n = 0 THEN buf ELSE SwapRun(Swap(buf, a, b), a + 1, b + 1, n - 1)

RECURSIVE FlipRows(_, _, _, _)
\* for y in y..(height / 2): exchange row y (top) and row height - 1 - y (bottom)
FlipRows(width, height, buf, y) ==
    IF y >= height \div 2 THEN buf
    ELSE FlipRows(width, height,
                  SwapRun(buf, y * (width * 4), (height - 1 - y) * (width * 4), width * 4),
                  y + 1)

RECURSIVE CopyRowsDown(_, _, _, _)
\* rows exchanged without the scratch row: the top row is lost
CopyRowsDown(width, height, buf, y) ==
    IF y >= height \div 2 THEN buf
    ELSE CopyRowsDown(width, height,
                      [i \in 1..Len(buf) |->
                          IF i > (height - 1 - y) * (width * 4)
                             /\ i <= (height - y) * (width * 4)
                            THEN buf[i - (height - 1 - 2 * y) * (width * 4)]
                          ELSE buf[i]],
                      y + 1)

\* a flip that copies each top row over the bottom row and never the other way
flip_top_bottom_no_tmp(width, height, buf) ==
    IF width * 4 = 0 \/ height = 0 THEN buf
    ELSE CopyRowsDown(width, height, buf, 0)

\* mirror_plugin: flip_top_bottom_in_place
flip_top_bottom_in_place(width, height, buf) ==
    IF width * 4 = 0 \/ height = 0 THEN buf
    ELSE FlipRows(width, height, buf, 0)

\* the four swaps of pixel x of row y with pixel width - 1 - x
MirrorPixel(width, buf, y, x) ==
    SwapRun(buf, y * (width * 4) + x * 4, y * (width * 4) + (width - 1 - x) * 4, 4)

RECURSIVE MirrorPixels(_, _, _, _)
\* the (y, x) loops, k = y * (width / 2) + x
MirrorPixels(width, height, buf, k) ==
    IF k >= height * (width \div 2) THEN buf
    ELSE MirrorPixels(width, height,
                      MirrorPixel(width, buf, k \div (width \div 2), k % (width \div 2)),
                      k + 1)

\* mirror_plugin: mirror_left_right_in_place
mirror_left_right_in_place(width, height, buf) ==
    IF width = 0 \/ height = 0 THEN buf
    ELSE MirrorPixels(width, height, buf, 0)

----------------------------------------------------------------------------
(* The entry points *)

\* process_image is handed `mem`, the memory that starts at rgba_data: the caller's
\* buffer, followed by whatever lies behind it when the buffer is shorter than
\* width * height * 4.  The result is [mem, status, sliced, panicked]: the memory
\* afterwards, the value returned ("unit" for none), whether the slice of
\* total_len bytes was formed, and whether the call panicked.

\* w.checked_mul(h).and_then(|wh| wh.checked_mul(4)): usize is 64 bits wide and
\* the sizes of this model are far below it, so the product is always Some
TotalLen(width, height) == width * height * 4

\* the first n bytes of mem replaced by buf
Patch(mem, buf) == [i \in 1..Len(mem) |-> IF i <= Len(buf) THEN buf[i] ELSE mem[i]]

Returned(mem, ret, sliced, panicked) ==
    [mem |-> mem, status |-> ret, sliced |-> sliced, panicked |-> panicked]

BlurResult(mem, res) == Returned(Patch(mem, res.buf), "unit", TRUE, res.panicked)

\* process_image from `let w = width as usize` on, with the parameters prm
BlurWith(width, height, mem, prm) ==
    BlurResult(mem, blur_in_place(width, height, SubSeq(mem, 1, TotalLen(width, height)),
                                  prm.radius, prm.iterations))

\* blur_plugin: process_image
BlurProcessImage(width, height, null, mem, p) ==
    IF null THEN Returned(mem, "unit", FALSE, FALSE)
    ELSE BlurWith(width, height, mem, BlurParams(p))

\* if params.vertical { mirror_left_right_in_place(w, h, buf) }
MirrorIf(vertical, width, height, buf) ==
    IF vertical THEN mirror_left_right_in_place(width, height, buf) ELSE buf

\* if params.horizontal { flip_top_bottom_in_place(w, h, buf) }
FlipIf(horizontal, width, height, buf) ==
    IF horizontal THEN flip_top_bottom_in_place(width, height, buf) ELSE buf

\* the two conditional flips, in the order of the code
MirrorApply(width, height, buf, prm) ==
    MirrorIf(prm.vertical, width, height, FlipIf(prm.horizontal, width, height, buf))

\* process_image from the match on toml::from_str on
MirrorWith(width, height, mem, prm) ==
    IF ~prm.ok THEN Returned(mem, "1", FALSE, FALSE)
    ELSE Returned(Patch(mem, MirrorApply(width, height,
                                         SubSeq(mem, 1, TotalLen(width, height)), prm)),
                  "0", TRUE, FALSE)

\* a Mirror that reads its configuration leniently
MirrorProcessImageLenient(width, height, null, mem, p) ==
    IF null THEN Returned(mem, "1", FALSE, FALSE)
    ELSE MirrorWith(width, height, mem,
                    ParamsOfFieldsLenient(TRUE,
                        BoolField(TomlTable(ParamsStr(p)).entries, KeyHorizontal),
                        BoolField(TomlTable(ParamsStr(p)).entries, KeyVertical)))

\* mirror_plugin: process_image
MirrorProcessImage(width, height, null, mem, p) ==
    IF null THEN Returned(mem, "1", FALSE, FALSE)
    ELSE MirrorWith(width, height, mem, ParamsFromToml(ParamsStr(p)))

\* the entry point of module f
ProcessImage(f, width, height, null, mem, p) ==
    IF f = "blur" THEN BlurProcessImage(width, height, null, mem, p)
    ELSE MirrorProcessImage(width, height, null, mem, p)

----------------------------------------------------------------------------
(* Inputs *)

Black == <<0, 0, 0, 255>>
White == <<255, 255, 255, 255>>
Palette == {Black, White}

RECURSIVE Flatten(_)
\* the bytes of a sequence of pixels
Flatten(px) == IF px = <<>> THEN <<>> ELSE Head(px) \o Flatten(Tail(px))

\* the buffers of n pixels
Buffers(n) == {Flatten(px) : px \in [1..n -> Palette]}

\* the sizes of the generated images
Sizes(maxPixels) ==
    {wh \in (0..maxPixels) \X (0..maxPixels) : wh[1] * wh[2] <= maxPixels}

Text(bytes) == [null |-> FALSE, bytes |-> bytes]
NullParams == [null |-> TRUE, bytes |-> <<>>]

T_radius1 == KeyRadius \o <<"=","1">>
T_radius2_iter2 == KeyRadius \o <<"=","2","\n">> \o KeyIterations \o <<"=","2">>
T_foo_bar == <<"f","o","o","=","b","a","r">>
T_radius0_iter2 == KeyRadius \o <<"=","0","\n">> \o KeyIterations \o <<"=","2">>
T_iter0_radius_u32max ==
    KeyIterations \o <<"=","0"," ">> \o KeyRadius \o <<"=","4","2","9","4","9","6","7","2","9","5">>
T_radius_u32max == KeyRadius \o <<"=","4","2","9","4","9","6","7","2","9","5">>
T_radius_i32max == KeyRadius \o <<"=","2","1","4","7","4","8","3","6","4","7">>
T_radius_i32min == KeyRadius \o <<"=","2","1","4","7","4","8","3","6","4","8">>
T_true == <<" ","=", " ","t","r","u","e">>
T_false == <<" ","=", " ","f","a","l","s","e">>
T_h_only == KeyHorizontal \o T_true \o <<"\n">> \o KeyVertical \o T_false
T_v_only == KeyHorizontal \o T_false \o <<"\n">> \o KeyVertical \o T_true
T_both == KeyVertical \o T_true \o <<"\n">> \o KeyHorizontal \o T_true
T_neither == KeyHorizontal \o T_false \o <<"\n">> \o KeyVertical \o T_false
T_missing_field == KeyHorizontal \o T_true
T_wrong_type == KeyHorizontal \o <<" ","="," ","1","\n">> \o KeyVertical \o T_true
T_not_utf8 == KeyRadius \o <<"=","1", BadByte>>

\* the params pointers of the direct calls of each module
FilterParams(f) ==
    {NullParams, Text(<<>>), Text(T_foo_bar), Text(T_not_utf8)} \cup
    (IF f = "blur"
       THEN {Text(T_radius1), Text(T_radius2_iter2), Text(T_radius0_iter2),
             Text(T_iter0_radius_u32max),
             Text(T_radius_u32max), Text(T_radius_i32max), Text(T_radius_i32min)}
     ELSE {Text(T_h_only), Text(T_v_only), Text(T_both), Text(T_neither),
           Text(T_missing_field), Text(T_wrong_type), Text(T_radius1)})

\* what may lie behind a buffer that is `need` bytes short
Adjacent(need) == Buffers((need + 3) \div 4)

NoParsed == [radius |-> U32Of(0), iterations |-> U32Of(0)]
NoWorld == [input |-> [kind |-> "absent", w |-> 0, h |-> 0, pixels |-> <<>>],
            paramsFile |-> [kind |-> "absent", bytes |-> <<>>],
            plugin |-> "absent"]

----------------------------------------------------------------------------
(* Direct calls of a module's process_image *)

\* the buffer as it is now
CurBuf == hist[Len(hist)]
\* the buffer before the first call
OrigBuf == hist[1]
\* calls made
Calls == Len(hist) - 1

InitFilter ==
    /\ mode = "filter"
    /\ build \in {"debug", "release"}
    /\ filter \in {"blur", "mirror"}
    /\ \E wh \in Sizes(MaxPixels) :
         /\ arg_width = wh[1]
         /\ arg_height = wh[2]
         /\ \E null \in BOOLEAN :
              /\ rgba_null = null
              /\ IF null THEN hist = << <<>> >>
                 ELSE \E n \in {wh[1] * wh[2] - 1, wh[1] * wh[2], wh[1] * wh[2] + 1} :
                        /\ n >= 0
                        /\ \E b \in Buffers(n) : hist = <<b>>
    /\ params \in FilterParams(filter)
    /\ status = "none"
    /\ crashed = FALSE
    /\ parsed = NoParsed
    /\ pc = "none"
    /\ result = "none"
    /\ world = NoWorld
    /\ data = <<>>
    /\ handle = "none"
    /\ loads = 0
    /\ invocations = 0

\* bytes the buffer is short of width * height * 4
Need == Max(0, TotalLen(arg_width, arg_height) - Len(CurBuf))

\* The call returned res, or did not return: a panic inside an extern "C" function
\* aborts the process, and a slice longer than the buffer is undefined behaviour,
\* of which the model keeps two outcomes: a fault, and a run over the adjacent memory.
CallOutcome(res, fault) ==
    /\ fault => (Need > 0 /\ res.sliced)
    /\ hist' = Append(hist, IF fault THEN CurBuf ELSE SubSeq(res.mem, 1, Len(CurBuf)))
    /\ status' = IF fault \/ res.panicked THEN "none" ELSE res.status
    /\ crashed' = (fault \/ res.panicked)

\* one call process_image(arg_width, arg_height, rgba_data, params)
Call ==
    /\ mode = "filter"
    /\ ~crashed
    /\ Calls < MaxCalls
    /\ \E adj \in Adjacent(Need), fault \in BOOLEAN :
         CallOutcome(ProcessImage(filter, arg_width, arg_height, rgba_null,
                                  CurBuf \o adj, params), fault)
    /\ parsed' = IF filter = "blur" /\ ~rgba_null THEN BlurParams(params) ELSE parsed
    /\ UNCHANGED <<mode, build, filter, arg_width, arg_height, rgba_null, params,
                   pc, result, world, data, handle, loads, invocations>>

NextFilter == Call

FilterSpec == InitFilter /\ [][NextFilter]_vars

----------------------------------------------------------------------------
(* Blur reading its configuration: process_image up to `let iterations` *)

P_radius_eq == KeyRadius \o <<"=">>
P_RADIUS == <<"R","A","D","I","U","S">>
P_Iterations == <<"I","t","e","r","a","t","i","o","n","s",":"," ">>
P_7 == <<"7">>
P_12 == <<"1","2">>
P_x == <<"x"," ">>
P_u32max == <<"4","2","9","4","9","6","7","2","9","5">>
P_u32over == <<"4","2","9","4","9","6","7","2","9","6">>

Pieces == {P_radius_eq, P_RADIUS, P_Iterations, P_7, P_12, P_x, P_u32max, P_u32over,
           T_foo_bar}

RECURSIVE Concat(_)
Concat(ps) == IF ps = <<>> THEN <<>> ELSE Head(ps) \o Concat(Tail(ps))

\* the texts made of at most n pieces
GenTexts(n) == {Concat(ps) : ps \in UNION {[1..k -> Pieces] : k \in 0..n}}

InitParse ==
    /\ mode = "parse"
    /\ build = "release"
    /\ filter = "blur"
    /\ arg_width = 0
    /\ arg_height = 0
    /\ rgba_null = FALSE
    /\ hist = << <<>> >>
    /\ \E t \in GenTexts(MaxPieces) : params = Text(t)
    /\ status = "none"
    /\ crashed = FALSE
    /\ parsed = NoParsed
    /\ pc = "parse"
    /\ result = "none"
    /\ world = NoWorld
    /\ data = <<>>
    /\ handle = "none"
    /\ loads = 0
    /\ invocations = 0

\* let radius = get_u32(params_str, "radius").unwrap_or(3); let iterations = ...
Parse ==
    /\ mode = "parse"
    /\ pc = "parse"
    /\ parsed' = BlurParams(params)
    /\ pc' = "parsed"
    /\ UNCHANGED <<mode, build, filter, arg_width, arg_height, rgba_null, hist, params,
                   status, crashed, result, world, data, handle, loads, invocations>>

NextParse == Parse

ParseSpec == InitParse /\ [][NextParse]_vars

----------------------------------------------------------------------------
(* image_processor: main *)

HostTexts == {<<>>, T_radius1, T_foo_bar, T_h_only, T_v_only, T_radius_u32max,
              T_radius_i32max, T_not_utf8, T_radius1 \o <<NulByte>>}

\* the decoded images: RGBA8, both dimensions positive
PngFiles(wh) ==
    {[kind |-> "png", w |-> wh[1], h |-> wh[2], pixels |-> b] : b \in Buffers(wh[1] * wh[2])}

InputFiles ==
    {[kind |-> k, w |-> 0, h |-> 0, pixels |-> <<>>] : k \in {"absent", "corrupt"}} \cup
    UNION {PngFiles(wh) : wh \in {sz \in Sizes(HostMaxPixels) : sz[1] > 0 /\ sz[2] > 0}}

ParamsFiles ==
    {[kind |-> k, bytes |-> <<>>] : k \in {"absent", "unreadable"}} \cup
    {[kind |-> "file", bytes |-> t] : t \in HostTexts}

PluginFiles == {"absent", "notlib", "nosymbol", "blur", "mirror"}

InitHost ==
    /\ mode = "host"
    /\ build \in {"debug", "release"}
    /\ filter = "none"
    /\ arg_width = 0
    /\ arg_height = 0
    /\ rgba_null = FALSE
    /\ hist = << <<>> >>
    /\ params = NullParams
    /\ status = "none"
    /\ crashed = FALSE
    /\ parsed = NoParsed
    /\ pc = "check_input"
    /\ result = "running"
    /\ world \in [input : InputFiles, paramsFile : ParamsFiles, plugin : PluginFiles]
    /\ data = <<>>
    /\ handle = "none"
    /\ loads = 0
    /\ invocations = 0

\* return Err(e): the Plugin, if there is one, is dropped
Fail(e) ==
    /\ pc' = "done"
    /\ result' = e
    /\ handle' = "none"

HostFrame == UNCHANGED <<mode, build, rgba_null, hist, parsed, world>>

\* if !Path::new(&args.input).exists()
CheckInput ==
    /\ mode = "host" /\ pc = "check_input"
    /\ IF world.input.kind = "absent" THEN Fail("MissingInput")
       ELSE pc' = "check_params" /\ UNCHANGED <<result, handle>>
    /\ HostFrame
    /\ UNCHANGED <<filter, arg_width, arg_height, params, status, crashed, data, loads,
                   invocations>>

\* if !Path::new(&args.params).exists()
CheckParams ==
    /\ mode = "host" /\ pc = "check_params"
    /\ IF world.paramsFile.kind = "absent" THEN Fail("MissingParams")
       ELSE pc' = "read_params" /\ UNCHANGED <<result, handle>>
    /\ HostFrame
    /\ UNCHANGED <<filter, arg_width, arg_height, params, status, crashed, data, loads,
                   invocations>>

\* std::fs::read, std::str::from_utf8, CString::new
ReadParams ==
    /\ mode = "host" /\ pc = "read_params"
    /\ IF world.paramsFile.kind = "unreadable"
         THEN Fail("Io") /\ UNCHANGED params
       ELSE IF IsIn(world.paramsFile.bytes, BadByte)
         THEN Fail("InvalidParamsUtf8") /\ UNCHANGED params
       ELSE IF IsIn(world.paramsFile.bytes, NulByte)
         THEN Fail("InvalidParamsNul") /\ UNCHANGED params
       ELSE /\ params' = Text(world.paramsFile.bytes)
            /\ pc' = "open_image"
            /\ UNCHANGED <<result, handle>>
    /\ HostFrame
    /\ UNCHANGED <<filter, arg_width, arg_height, status, crashed, data, loads, invocations>>

\* image::open, to_rgba8, dimensions, into_raw
OpenImage ==
    /\ mode = "host" /\ pc = "open_image"
    /\ IF world.input.kind = "corrupt"
         THEN Fail("Image") /\ UNCHANGED <<arg_width, arg_height, data>>
       ELSE /\ arg_width' = world.input.w
            /\ arg_height' = world.input.h
            /\ data' = world.input.pixels
            /\ pc' = "check_plugin"
            /\ UNCHANGED <<result, handle>>
    /\ HostFrame
    /\ UNCHANGED <<filter, params, status, crashed, loads, invocations>>

\* a main that goes on to load the module without looking for the file
CheckPluginSkipped ==
    /\ mode = "host" /\ pc = "check_plugin"
    /\ pc' = "load"
    /\ HostFrame
    /\ UNCHANGED <<filter, arg_width, arg_height, params, status, crashed, data, loads,
                   invocations, result, handle>>

\* if !plugin_path.exists()
CheckPlugin ==
    /\ mode = "host" /\ pc = "check_plugin"
    /\ IF world.plugin = "absent" THEN Fail("MissingPlugin")
       ELSE pc' = "load" /\ UNCHANGED <<result, handle>>
    /\ HostFrame
    /\ UNCHANGED <<filter, arg_width, arg_height, params, status, crashed, data, loads,
                   invocations>>

\* Plugin::load: Library::new(path)?
LoadLibrary ==
    /\ mode = "host" /\ pc = "load"
    /\ loads' = loads + 1
    /\ IF world.plugin \in {"absent", "notlib"} THEN Fail("Plugin")
       ELSE pc' = "resolve" /\ handle' = "lib" /\ UNCHANGED result
    /\ HostFrame
    /\ UNCHANGED <<filter, arg_width, arg_height, params, status, crashed, data, invocations>>

\* Plugin::load: lib.get(b"process_image")?, then plugin.process_ptr()
ResolveSymbol ==
    /\ mode = "host" /\ pc = "resolve"
    /\ IF world.plugin = "nosymbol" THEN Fail("Plugin") /\ UNCHANGED filter
       ELSE /\ pc' = "invoke"
            /\ handle' = "plugin"
            /\ filter' = world.plugin
            /\ UNCHANGED result
    /\ HostFrame
    /\ UNCHANGED <<arg_width, arg_height, params, status, crashed, data, loads, invocations>>

\* what main does with the call's outcome: ProcessFn returns nothing, so the value
\* the module returned is not read; a panic in the module aborts the process
Invoked(res) ==
    /\ data' = res.mem
    /\ status' = res.status
    /\ crashed' = res.panicked
    /\ IF res.panicked THEN Fail("abort")
       ELSE pc' = "save" /\ UNCHANGED <<result, handle>>

\* process(width, height, data.as_mut_ptr(), params_c.as_ptr())
Invoke ==
    /\ mode = "host" /\ pc = "invoke"
    /\ invocations' = invocations + 1
    /\ Invoked(ProcessImage(filter, arg_width, arg_height, FALSE, data, params))
    /\ HostFrame
    /\ UNCHANGED <<filter, arg_width, arg_height, params, loads>>

\* ImageBuffer::from_raw(..).expect(..), out.save(..)?, Ok(())
Save ==
    /\ mode = "host" /\ pc = "save"
    /\ IF Len(data) # TotalLen(arg_width, arg_height) THEN Fail("abort")
       ELSE \E ok \in BOOLEAN : Fail(IF ok THEN "Ok" ELSE "Image")
    /\ HostFrame
    /\ UNCHANGED <<filter, arg_width, arg_height, params, status, crashed, data, loads,
                   invocations>>

Next ==
    \/ CheckInput
    \/ CheckParams
    \/ ReadParams
    \/ OpenImage
    \/ CheckPlugin
    \/ LoadLibrary
    \/ ResolveSymbol
    \/ Invoke
    \/ Save

Init == InitHost

Spec == Init /\ [][Next]_vars

----------------------------------------------------------------------------
(* Properties of the direct calls (FilterSpec) *)

\* the buffer handed over has exactly width * height * 4 bytes
ExactLen == ~rgba_null /\ Len(OrigBuf) = TotalLen(arg_width, arg_height)

\* no call changed the buffer
Untouched == \A k \in 1..Len(hist) : hist[k] = OrigBuf

\* C1: a buffer whose length differs from width * height * 4 is left unchanged by
\* either filter, and the call neither crashes nor leaves the buffer.
C1_MismatchedBufferIsNoOp ==
    (/\ mode = "filter"
     /\ ~rgba_null
     /\ Len(OrigBuf) # TotalLen(arg_width, arg_height)
     /\ Calls >= 1)
    => (Untouched /\ ~crashed)

\* C2: with a null config pointer and a valid buffer each filter takes its defaults
\* and does not fail: Blur runs with radius 3 and 1 iteration, Mirror returns 0.
C2_NullConfigSelectsDefaults ==
    (/\ mode = "filter"
     /\ ExactLen
     /\ params.null
     /\ Calls >= 1)
    => /\ ~crashed
       /\ filter = "blur" => parsed = [radius |-> U32Of(3), iterations |-> U32Of(1)]
       /\ filter = "mirror" => status = "0"

\* the configurations that set exactly one of the two flags
SingleAxisParams == {Text(T_h_only), Text(T_v_only)}

\* C5: Mirror with one axis set, applied twice to an image, restores the buffer.
C5_MirrorTwiceRestores ==
    (/\ mode = "filter"
     /\ filter = "mirror"
     /\ ExactLen
     /\ params \in SingleAxisParams)
    => /\ ~crashed
       /\ Calls >= 1 => status = "0"
       /\ \A k \in 1..(Len(hist) - 2) : hist[k + 2] = hist[k]

\* a flip that changed the image and a second one that restored it
C5_Witness ==
    /\ mode = "filter"
    /\ filter = "mirror"
    /\ ExactLen
    /\ params \in SingleAxisParams
    /\ Calls = 2
    /\ hist[2] # hist[1]
    /\ hist[3] = hist[1]

\* C6: k calls of Blur with iterations = 1 leave what one run of k iterations
\* with the same radius leaves.
C6_IterationsCompose ==
    (/\ mode = "filter"
     /\ filter = "blur"
     /\ ExactLen
     /\ ~crashed
     /\ Calls >= 1
     /\ parsed.iterations = U32Of(1))
    => CurBuf = blur_in_place(arg_width, arg_height, OrigBuf, parsed.radius,
                              U32Of(Calls)).buf

\* two calls, each of which changed the image
C6_Witness ==
    /\ mode = "filter"
    /\ filter = "blur"
    /\ ExactLen
    /\ ~crashed
    /\ Calls = 2
    /\ parsed.iterations = U32Of(1)
    /\ hist[2] # hist[1]
    /\ hist[3] # hist[2]

\* the texts of the model that are not a table with the two boolean fields
MalformedMirrorParams ==
    {Text(<<>>), Text(T_foo_bar), Text(T_not_utf8), Text(T_missing_field),
     Text(T_wrong_type), Text(T_radius1)}

\* C7: Mirror given a malformed configuration returns nonzero and leaves the
\* buffer as it was.
C7_MalformedMirrorConfigFails ==
    (/\ mode = "filter"
     /\ filter = "mirror"
     /\ ~rgba_null
     /\ params \in MalformedMirrorParams
     /\ Calls >= 1)
    => (status = "1" /\ Untouched /\ ~crashed)

\* a malformed configuration met an image that either flip would change
C7_Witness ==
    /\ mode = "filter"
    /\ filter = "mirror"
    /\ ExactLen
    /\ params = Text(T_missing_field)
    /\ Calls >= 1
    /\ status = "1"
    /\ flip_top_bottom_in_place(arg_width, arg_height, OrigBuf) # OrigBuf

\* C8: Blur with radius = 0 or iterations = 0, or on an image of width 0 or
\* height 0, leaves the buffer unchanged.
C8_BlurNoOp ==
    (/\ mode = "filter"
     /\ filter = "blur"
     /\ ~rgba_null
     /\ Len(OrigBuf) >= TotalLen(arg_width, arg_height)
     /\ Calls >= 1
     /\ \/ U32IsZero(parsed.radius)
        \/ U32IsZero(parsed.iterations)
        \/ arg_width = 0
        \/ arg_height = 0)
    => (Untouched /\ ~crashed)

\* radius 0 met an image that a blur of radius 1 would change
C8_Witness ==
    /\ mode = "filter"
    /\ filter = "blur"
    /\ ExactLen
    /\ Calls >= 1
    /\ U32IsZero(parsed.radius)
    /\ ~U32IsZero(parsed.iterations)
    /\ arg_width > 0
    /\ arg_height > 0
    /\ BlurLoop(arg_width, arg_height, OrigBuf, 1, 1) # OrigBuf
    /\ CurBuf = OrigBuf

\* |a - b| <= radius
WithinRadius(a, b, radius) == U32AtLeast(radius, IF a >= b THEN a - b ELSE b - a)

\* rows max(0, y - radius)..min(height - 1, y + radius), columns likewise
ClippedSquare(width, height, x, y, radius) ==
    {n \in (0..(width - 1)) \X (0..(height - 1)) :
        WithinRadius(n[1], x, radius) /\ WithinRadius(n[2], y, radius)}

\* C10: for every radius >= 1 the configuration can yield, the neighbours a pass
\* sums for pixel (x, y) are the clipped square around it, computed without
\* overflow, so the window holds (x, y) and the weight sum is positive.
C10_WindowIsClippedSquare ==
    (/\ mode = "filter"
     /\ filter = "blur"
     /\ ExactLen
     /\ Calls >= 1
     /\ U32AtLeast(parsed.radius, 1)
     /\ ~U32IsZero(parsed.iterations))
    => /\ ~crashed
       /\ \A x \in 0..(arg_width - 1), y \in 0..(arg_height - 1) :
            /\ ~Window(arg_width, arg_height, x, y, AsI32(parsed.radius)).ovf
            /\ Neighbours(Window(arg_width, arg_height, x, y, AsI32(parsed.radius)))
                 = ClippedSquare(arg_width, arg_height, x, y, parsed.radius)
            /\ <<x, y>> \in
                 Neighbours(Window(arg_width, arg_height, x, y, AsI32(parsed.radius)))
            /\ WSum(Window(arg_width, arg_height, x, y, AsI32(parsed.radius)), x, y) > 0

----------------------------------------------------------------------------
(* Properties of Blur's configuration (ParseSpec) *)

\* a and b are the same character up to the case of a letter
SameCaseless(a, b) ==
    a = b \/ \E i \in 1..Len(UpperChars) : {a, b} = {UpperChars[i], LowerChars[i]}

\* the 0-based positions at which key occurs in s, case-insensitively
KeyPositions(s, key) ==
    {q \in 0..(Len(s) - Len(key)) : \A j \in 1..Len(key) : SameCaseless(s[q + j], key[j])}

MinOf(S) == CHOOSE m \in S : \A n \in S : m <= n
MaxOf(S) == CHOOSE m \in S : \A n \in S : m >= n

\* the 1-based positions of the digits of s behind the 0-based position from
DigitPositions(s, from) == {i \in (from + 1)..Len(s) : is_ascii_digit(s[i])}

\* the run of digits of s that starts at i
DigitRunAt(s, i) ==
    SubSeq(s, i, MaxOf({j \in i..Len(s) : \A k \in i..j : is_ascii_digit(s[k])}))

\* the digits the rule picks for key in s, <<>> when there are none
RuleDigits(s, key) ==
    IF KeyPositions(s, key) = {} THEN <<>>
    ELSE IF DigitPositions(s, MinOf(KeyPositions(s, key)) + Len(key)) = {} THEN <<>>
    ELSE DigitRunAt(s, MinOf(DigitPositions(s, MinOf(KeyPositions(s, key)) + Len(key))))

RECURSIVE StripZeros(_)
StripZeros(d) == IF Len(d) > 1 /\ Head(d) = "0" THEN StripZeros(Tail(d)) ELSE d

RECURSIVE DigitsLeq(_, _)
\* d <= e for two digit sequences of the same length
DigitsLeq(d, e) ==
    IF d = <<>> THEN TRUE
    ELSE IF DigitValue(Head(d)) # DigitValue(Head(e))
      THEN DigitValue(Head(d)) < DigitValue(Head(e))
    ELSE DigitsLeq(Tail(d), Tail(e))

\* the number written d fits an unsigned 32-bit integer
FitsU32(d) ==
    \/ Len(StripZeros(d)) < 10
    \/ Len(StripZeros(d)) = 10 /\ DigitsLeq(StripZeros(d), P_u32max)

RECURSIVE U32Digits(_)
\* u written in decimal
U32Digits(u) ==
    IF u.hi = 0 /\ u.lo < 10 THEN <<DigitChars[u.lo + 1]>>
    ELSE U32Digits([hi |-> u.hi \div 10, lo |-> ((u.hi % 10) * Half + u.lo) \div 10])
           \o <<DigitChars[(((u.hi % 10) * Half + u.lo) % 10) + 1]>>

\* got is what the rule yields for key in s, with the default given
FollowsRule(got, s, key, default) ==
    IF RuleDigits(s, key) = <<>> \/ ~FitsU32(RuleDigits(s, key))
      THEN got = U32Of(default)
    ELSE U32Digits(got) = StripZeros(RuleDigits(s, key))

\* C9: Blur takes radius and iterations from the text by the permissive rule
\* (first case-insensitive occurrence of the key, skip to the first digit, parse
\* the run of digits as u32), defaults 3 and 1 when that yields nothing;
\* "foo=bar" yields 3 and 1.
C9_PermissiveRule ==
    (mode = "parse" /\ pc = "parsed")
    => /\ FollowsRule(parsed.radius, ParamsStr(params), KeyRadius, 3)
       /\ FollowsRule(parsed.iterations, ParamsStr(params), KeyIterations, 1)
       /\ params = Text(T_foo_bar)
            => parsed = [radius |-> U32Of(3), iterations |-> U32Of(1)]

\* the key in capitals, other characters skipped, then a number
C9_Witness ==
    /\ mode = "parse"
    /\ pc = "parsed"
    /\ params = Text(P_RADIUS \o P_x \o P_12)
    /\ parsed = [radius |-> U32Of(12), iterations |-> U32Of(1)]

----------------------------------------------------------------------------
(* Properties of the host (Spec) *)

\* Plugin::load failed
LoadFailed == loads >= 1 /\ world.plugin \in {"notlib", "nosymbol"}

\* the module's process_image reported a failure
InvocationFailed == invocations >= 1 /\ status = "1"

\* C3: a failed load or a failed invocation ends the run with an error, and
\* neither is attempted a second time.
C3_FailureEndsRunWithError ==
    mode = "host"
    => /\ loads <= 1
       /\ invocations <= 1
       /\ (pc = "done" /\ (LoadFailed \/ InvocationFailed)) => result # "Ok"

\* the bytes the image decoded to, once it is decoded
Unmutated == data = <<>> \/ data = world.input.pixels

\* C4 as stated: the entry point is invoked only with the module found, opened and
\* resolved; whenever the module path does not exist the run ends with
\* MissingPlugin, without an invocation and with the buffer as decoded.
C4_AsStated ==
    mode = "host"
    => /\ pc = "invoke" => (world.plugin # "absent" /\ handle = "plugin")
       /\ invocations >= 1 => (world.plugin \in {"blur", "mirror"} /\ loads = 1)
       /\ (world.plugin = "absent" /\ pc = "done")
            => (result = "MissingPlugin" /\ invocations = 0 /\ Unmutated)

\* C4 amended: the error is MissingPlugin when the run gets as far as the check of
\* the module path; with the path missing there is never an invocation or a
\* mutation, whatever error ends the run.
C4_InvokeOnlyAfterLoad ==
    mode = "host"
    => /\ pc = "invoke" => (world.plugin # "absent" /\ handle = "plugin")
       /\ invocations >= 1 => (world.plugin \in {"blur", "mirror"} /\ loads = 1)
       /\ world.plugin = "absent"
            => /\ invocations = 0 /\ loads = 0 /\ handle = "none" /\ Unmutated
               /\ pc = "done" =>
                    result \in {"MissingInput", "MissingParams", "Io", "InvalidParamsUtf8",
                                "InvalidParamsNul", "Image", "MissingPlugin"}
               /\ (pc = "done" /\ world.input.kind = "png"
                   /\ world.paramsFile.kind = "file"
                   /\ ~IsIn(world.paramsFile.bytes, BadByte)
                   /\ ~IsIn(world.paramsFile.bytes, NulByte))
                    => result = "MissingPlugin"

\* a run that decoded an image and ended with MissingPlugin
C4_Witness ==
    /\ mode = "host"
    /\ pc = "done"
    /\ world.plugin = "absent"
    /\ result = "MissingPlugin"
    /\ data = world.input.pixels
    /\ data # <<>>

====
